---- MODULE Spec2Model ----
(***************************************************************************)
(* Model of the sport-club receptionist backend: the relational store      *)
(* (customers, conversations, messages, bookings, notifications), the      *)
(* VAPI webhook handlers of app/routes/vapi.py and the booking endpoints   *)
(* of app/routes/booking.py.  Row ids are positions in the table's         *)
(* sequence (rows are never deleted by the modelled operations); None is   *)
(* NULL for strings and NoInt for numbers and row references.              *)
(***************************************************************************)
EXTENDS Integers, Sequences, FiniteSets, TLC

VARIABLES customers, conversations, messages, bookings, notifications,
          now, response, workers

vars == <<customers, conversations, messages, bookings, notifications,
          now, response, workers>>

store == <<customers, conversations, messages, bookings, notifications>>

(***************************************************************************)
(* Bounds of the model.                                                    *)
(***************************************************************************)
MaxClock == 1
MaxCustomers == 2
MaxBookings == 2
MaxMessages == 1
MaxNotifications == 1
MaxRetryCount == 4

(***************************************************************************)
(* Values.                                                                 *)
(***************************************************************************)
NULL == "None"
NoInt == -1

\* The clubs table is administered outside the modelled operations: two
\* tenants, each with its own assistant id; only the first has a manager phone.
Clubs == {1, 2}
AssistantOf == [c \in Clubs |-> IF c = 1 THEN "asst_1" ELSE "asst_2"]
ManagerPhoneOf == [c \in Clubs |-> IF c = 1 THEN "+46700000099" ELSE NULL]

CallIds == {"abc", "xyz"}
Phones == {"+46700000001", "+46700000002"}

\* ConversationStatus, BookingStatus, CustomerStatus, NotificationStatus
ACTIVE == "active"
COMPLETED == "completed"
ESCALATED == "escalated"
PENDING == "pending"
CONFIRMED == "confirmed"
CANCELLED == "cancelled"
NO_SHOW == "no_show"
LEAD == "lead"
INTERESTED == "interested"
SENT == "sent"
FAILED == "failed"
DELIVERED == "delivered"
BOUNCED == "bounced"
NotificationStatuses == {PENDING, SENT, DELIVERED, FAILED, BOUNCED}
BookingStatuses == {PENDING, CONFIRMED, COMPLETED, CANCELLED, NO_SHOW}

\* timedelta(hours=1) in the model's half-hour time slots
Hour == 2

(***************************************************************************)
(* Responses.  An exception that leaves a handler is a 500.                *)
(***************************************************************************)
Reply(op, status, body, id, detail) ==
    [op |-> op, status |-> status, body |-> body, id |-> id, detail |-> detail]

InternalServerError(op) == Reply(op, 500, "Internal Server Error", NoInt, NULL)

NoResponse == Reply(NULL, 0, NULL, NoInt, NULL)

(***************************************************************************)
(* Queries: db.query(T).filter(...).first() as the lowest matching id,     *)
(* 0 when no row matches.                                                  *)
(***************************************************************************)
Min(S) == CHOOSE x \in S : \A y \in S : x <= y

First(S) == IF S = {} THEN 0 ELSE Min(S)

ConversationByCallId(call_id) ==
    First({i \in DOMAIN conversations : conversations[i].vapi_call_id = call_id})

ClubByAssistantId(assistant_id) ==
    First({c \in Clubs : AssistantOf[c] = assistant_id})

\* A lookup that compares the phone number only by its digits, so that it
\* never finds the number as the payload writes it
CustomerByPhone_digits_only(phone_number, club_id) ==
    First({i \in DOMAIN customers :
              customers[i].phone = "46700000001" /\ customers[i].club_id = club_id})

CustomerByPhone(phone_number, club_id) ==
    First({i \in DOMAIN customers :
              customers[i].phone = phone_number /\ customers[i].club_id = club_id})

(***************************************************************************)
(* Webhook payloads (VAPIWebhookPayload after validation and .dict()).     *)
(* An absent optional object has present = FALSE; call.customer is NULL    *)
(* when the key is None, "{}" when the dict has no number.                 *)
(***************************************************************************)
NoCall ==
    [present |-> FALSE, id |-> "", assistantId |-> NULL, customer |-> NULL,
     duration |-> NoInt, cost |-> NoInt, endedReason |-> NULL]

StartCall(id, assistantId, customer) ==
    [present |-> TRUE, id |-> id, assistantId |-> assistantId, customer |-> customer,
     duration |-> NoInt, cost |-> NoInt, endedReason |-> NULL]

EndCall(id, duration, cost, endedReason) ==
    [present |-> TRUE, id |-> id, assistantId |-> NULL, customer |-> NULL,
     duration |-> duration, cost |-> cost, endedReason |-> endedReason]

PlainCall(id) == StartCall(id, NULL, NULL)

StartCalls ==
    {NoCall} \cup
    {StartCall(id, a, cu) : id \in CallIds \cup {""},
                            a \in {"asst_1", "asst_2", "asst_9", NULL},
                            cu \in {"+46700000001", NULL, "{}"}}

EndCalls ==
    {NoCall} \cup
    {EndCall(id, 30, 1, "customer-ended-call") : id \in CallIds} \cup
    {EndCall(id, 45, 2, "assistant-ended-call") : id \in CallIds}

PlainCalls == {NoCall} \cup {PlainCall(id) : id \in CallIds}

(***************************************************************************)
(* handle_call_start                                                       *)
(***************************************************************************)
NewCustomer(club_id, phone_number) ==
    [club_id |-> club_id, name |-> "Unknown Caller", phone |-> phone_number,
     source |-> "phone_call", status |-> LEAD]

NewConversation(club_id, customer_id, call_id) ==
    [club_id |-> club_id, customer_id |-> customer_id, vapi_call_id |-> call_id,
     status |-> ACTIVE, escalated_to_manager |-> FALSE, ended_at |-> NoInt,
     call_duration |-> NoInt, call_cost |-> NoInt, outcome |-> NULL]

\* conversations.vapi_call_id without its unique index
CallIdNeverTaken(call_id) == FALSE

\* The unique index on conversations.vapi_call_id: the INSERT is refused.
CallIdTaken(call_id) == ConversationByCallId(call_id) # 0

\* A call-start that sets the conversation of a known call id active again
handle_call_start_reopening(call) ==
    LET op == "call-start" IN
    /\ UNCHANGED <<messages, bookings, notifications>>
    /\ IF ~call.present \/ call.customer = NULL
       THEN \* None.get(...): AttributeError
            /\ response' = InternalServerError(op)
            /\ UNCHANGED <<customers, conversations>>
       ELSE IF call.id = ""
       THEN /\ response' = Reply(op, 200, "error", NoInt, "Missing call ID")
            /\ UNCHANGED <<customers, conversations>>
       ELSE IF call.customer = "{}"
       THEN /\ response' = Reply(op, 200, "error", NoInt, "Missing phone number")
            /\ UNCHANGED <<customers, conversations>>
       ELSE LET club == IF call.assistantId # NULL
                        THEN ClubByAssistantId(call.assistantId) ELSE 0
            IN
            IF club = 0
            THEN /\ response' = Reply(op, 200, "error", NoInt, "Club not found")
                 /\ UNCHANGED <<customers, conversations>>
            ELSE LET found == CustomerByPhone(call.customer, club)
                     customer == IF found = 0 THEN Len(customers) + 1 ELSE found
                 IN
                 /\ found = 0 => Len(customers) < MaxCustomers
                 /\ customers' = IF found = 0
                                 THEN Append(customers, NewCustomer(club, call.customer))
                                 ELSE customers
                 /\ IF CallIdTaken(call.id)
                    THEN /\ response' = Reply(op, 200, "ok", ConversationByCallId(call.id), NULL)
                         /\ conversations' =
                              [conversations EXCEPT ![ConversationByCallId(call.id)].status = ACTIVE]
                    ELSE /\ conversations' =
                              Append(conversations, NewConversation(club, customer, call.id))
                         /\ response' = Reply(op, 200, "ok", Len(conversations) + 1, NULL)

handle_call_start(call) ==
    LET op == "call-start" IN
    /\ UNCHANGED <<messages, bookings, notifications>>
    /\ IF ~call.present \/ call.customer = NULL
       THEN \* None.get(...): AttributeError
            /\ response' = InternalServerError(op)
            /\ UNCHANGED <<customers, conversations>>
       ELSE IF call.id = ""
       THEN /\ response' = Reply(op, 200, "error", NoInt, "Missing call ID")
            /\ UNCHANGED <<customers, conversations>>
       ELSE IF call.customer = "{}"
       THEN /\ response' = Reply(op, 200, "error", NoInt, "Missing phone number")
            /\ UNCHANGED <<customers, conversations>>
       ELSE LET club == IF call.assistantId # NULL
                        THEN ClubByAssistantId(call.assistantId) ELSE 0
            IN
            IF club = 0
            THEN /\ response' = Reply(op, 200, "error", NoInt, "Club not found")
                 /\ UNCHANGED <<customers, conversations>>
            ELSE LET found == CustomerByPhone(call.customer, club)
                     customer == IF found = 0 THEN Len(customers) + 1 ELSE found
                 IN
                 /\ found = 0 => Len(customers) < MaxCustomers
                 /\ customers' = IF found = 0
                                 THEN Append(customers, NewCustomer(club, call.customer))
                                 ELSE customers
                 /\ IF CallIdTaken(call.id)
                    THEN \* IntegrityError out of db.commit()
                         /\ response' = InternalServerError(op)
                         /\ UNCHANGED conversations
                    ELSE /\ conversations' =
                              Append(conversations, NewConversation(club, customer, call.id))
                         /\ response' = Reply(op, 200, "ok", Len(conversations) + 1, NULL)

(***************************************************************************)
(* handle_call_end                                                         *)
(***************************************************************************)
\* A call-end that completes every conversation still active, whatever its
\* call id
handle_call_end_every_active(call) ==
    LET op == "call-end" IN
    /\ UNCHANGED <<customers, messages, bookings, notifications>>
    /\ IF ~call.present
       THEN /\ response' = InternalServerError(op)
            /\ UNCHANGED conversations
       ELSE /\ response' = Reply(op, 200, "ok", NoInt, NULL)
            /\ conversations' =
                 [i \in DOMAIN conversations |->
                     IF conversations[i].status = ACTIVE
                     THEN [conversations[i] EXCEPT !.status = COMPLETED,
                                                  !.ended_at = now,
                                                  !.call_duration = call.duration,
                                                  !.call_cost = call.cost,
                                                  !.outcome = call.endedReason]
                     ELSE conversations[i]]

handle_call_end(call) ==
    LET op == "call-end" IN
    /\ UNCHANGED <<customers, messages, bookings, notifications>>
    /\ IF ~call.present
       THEN /\ response' = InternalServerError(op)
            /\ UNCHANGED conversations
       ELSE LET conversation == ConversationByCallId(call.id) IN
            /\ response' = Reply(op, 200, "ok", NoInt, NULL)
            /\ IF conversation # 0
               THEN conversations' =
                      [conversations EXCEPT ![conversation] =
                          [@ EXCEPT !.status = COMPLETED,
                                    !.ended_at = now,
                                    !.call_duration = call.duration,
                                    !.call_cost = call.cost,
                                    !.outcome = call.endedReason]]
               ELSE UNCHANGED conversations

(***************************************************************************)
(* Function calls (FunctionCallInfo).  A parameter that is not in the      *)
(* parameters dict is NULL.                                                *)
(***************************************************************************)
NoParameters ==
    [customer_name |-> NULL, customer_phone |-> NULL, question |-> NULL,
     activity |-> NULL, booking_date |-> NULL, booking_time |-> NULL,
     name |-> NULL, club_id |-> NoInt, customer_id |-> NoInt]

NoFunctionCall == [present |-> FALSE, name |-> NULL, parameters |-> NoParameters]

FunctionCall(name, parameters) ==
    [present |-> TRUE, name |-> name, parameters |-> parameters]

\* A date parser that accepts any text
DateParsesAnything(booking_date) == TRUE

\* datetime.fromisoformat on the date and on f"{date}T{time}": the slot of a
\* well-formed time of day, NoInt where the parse raises ValueError.
DateParses(booking_date) == booking_date = "2025-06-01"

TimeSlot(booking_time) ==
    CASE booking_time = "09:00" -> 0
      [] booking_time = "09:30" -> 1
      [] booking_time = "10:00" -> 2
      [] booking_time = "10:30" -> 3
      [] booking_time = "11:00" -> 4
      [] OTHER -> NoInt

\* str.lower() and str.title() on the activity names of the model
Lower(activity) ==
    CASE activity = "Tennis" -> "tennis"
      [] activity = "PADEL" -> "padel"
      [] OTHER -> activity

Title(activity) ==
    CASE activity = "yoga class" -> "Yoga Class"
      [] activity = "tennis" -> "Tennis"
      [] activity = "padel" -> "Padel"
      [] activity = "PADEL" -> "Padel"
      [] activity = "gym" -> "Gym"
      [] activity = "court" -> "Court"
      [] OTHER -> activity

\* The mapping without its "gym" entry
resource_map_without_gym(activity) ==
    CASE Lower(activity) = "tennis" -> "Tennis Court"
      [] Lower(activity) = "padel" -> "Padel Court"
      [] OTHER -> Title(activity)

resource_map(activity) ==
    CASE Lower(activity) = "tennis" -> "Tennis Court"
      [] Lower(activity) = "padel" -> "Padel Court"
      [] Lower(activity) = "gym" -> "Gym Session"
      [] OTHER -> Title(activity)

\* The unique index on bookings.confirmation_code
CodeTaken(code) == \E i \in DOMAIN bookings : bookings[i].confirmation_code = code

\* f"BK{datetime.now().strftime('%Y%m%d%H%M')}": one code per clock minute
MinuteCode(minute) == [kind |-> "BK", n |-> minute]

\* secrets.token_hex(4).upper(): a token no other row carries
TokenHex(n) == [kind |-> "HEX", n |-> n]

NewBooking(club_id, customer_id, conversation_id, status, resource_name, start_time, end_time, code) ==
    [club_id |-> club_id, customer_id |-> customer_id,
     conversation_id |-> conversation_id, status |-> status,
     resource_name |-> resource_name, start_time |-> start_time,
     end_time |-> end_time, confirmation_code |-> code,
     confirmation_sent_at |-> NoInt, cancellation_reason |-> NULL,
     cancelled_at |-> NoInt, cancelled_by |-> NULL]

NewNotification(club_id, customer_id, booking_id, conversation_id, type, success) ==
    [club_id |-> club_id, customer_id |-> customer_id, booking_id |-> booking_id,
     conversation_id |-> conversation_id, notification_type |-> type,
     status |-> IF success THEN SENT ELSE FAILED,
     error_message |-> IF success THEN NULL ELSE "send failed",
     retry_count |-> 0, max_retries |-> 3]

\* The confirmation logged under the first club instead of the booking's
BookingConfirmation_first_club(booking_id, booking, sms_ok) ==
    NewNotification(1, booking.customer_id, booking_id,
                    booking.conversation_id, "booking_confirmation", sms_ok)

\* NotificationService.send_booking_confirmation on the row just written:
\* the notification it logs (send_sms never raises)
BookingConfirmation(booking_id, booking, sms_ok) ==
    NewNotification(booking.club_id, booking.customer_id, booking_id,
                    booking.conversation_id, "booking_confirmation", sms_ok)

(***************************************************************************)
(* create_booking_from_call                                                *)
(***************************************************************************)
create_booking_from_call(parameters, conversation, sms_ok) ==
    LET op == "function-call"
        conv == conversations[conversation]
        start_time == IF parameters.booking_time # NULL
                      THEN TimeSlot(parameters.booking_time)
                      ELSE TimeSlot("10:00")
        end_time == IF parameters.booking_time # NULL
                    THEN start_time + Hour
                    ELSE TimeSlot("11:00")
        activity == IF parameters.activity # NULL THEN parameters.activity ELSE "court"
        code == MinuteCode(now)
        booking == NewBooking(conv.club_id, conv.customer_id, conversation, PENDING,
                              resource_map(activity), start_time, end_time, code)
        malformed == \/ parameters.booking_date = NULL          \* KeyError
                     \/ ~DateParses(parameters.booking_date)    \* ValueError
                     \/ start_time = NoInt                      \* ValueError
                     \/ parameters.customer_name = NULL         \* KeyError
                     \/ parameters.customer_phone = NULL        \* KeyError
        raises == malformed \/ CodeTaken(code)                  \* IntegrityError
    IN
    /\ UNCHANGED <<customers, conversations, messages>>
    /\ IF raises
       THEN /\ response' = Reply(op, 200, "error", NoInt,
                                 IF CodeTaken(code) /\ ~malformed
                                 THEN "create_booking: Failed to create booking: IntegrityError"
                                 ELSE "create_booking: Failed to create booking")
            /\ UNCHANGED <<bookings, notifications>>
       ELSE /\ Len(bookings) < MaxBookings
            /\ bookings' = Append(bookings, booking)
            /\ notifications' =
                 Append(notifications,
                        BookingConfirmation(Len(bookings) + 1, booking, sms_ok))
            /\ response' = Reply(op, 200, "result", Len(bookings) + 1, "create_booking: Booking created!")

(***************************************************************************)
(* save_customer_info                                                      *)
(***************************************************************************)
save_customer_info(parameters, conversation) ==
    LET customer == conversations[conversation].customer_id IN
    /\ UNCHANGED <<conversations, messages, bookings, notifications>>
    /\ customers' =
         [customers EXCEPT ![customer] =
             [@ EXCEPT !.name = IF parameters.name # NULL
                                   /\ parameters.name # "Unknown Caller"
                                THEN parameters.name ELSE @,
                       !.status = INTERESTED]]
    /\ response' = Reply("function-call", 200, "result", NoInt,
                         "save_customer_info: Customer information saved successfully")

(***************************************************************************)
(* escalate_to_manager, with NotificationService.send_escalation_to_manager*)
(***************************************************************************)
escalate_to_manager(parameters, conversation, sms_ok) ==
    LET op == "function-call"
        conv == conversations[conversation]
        configured == ManagerPhoneOf[conv.club_id] # NULL
        success == configured /\ sms_ok
    IN
    /\ UNCHANGED <<customers, messages, bookings>>
    /\ IF \/ parameters.customer_name = NULL
          \/ parameters.customer_phone = NULL
          \/ parameters.question = NULL
       THEN \* KeyError
            /\ response' = InternalServerError(op)
            /\ UNCHANGED <<conversations, notifications>>
       ELSE /\ IF configured
               THEN /\ Len(notifications) < MaxNotifications
                    /\ notifications' =
                         Append(notifications,
                                NewNotification(conv.club_id, NoInt, NoInt, conversation,
                                                "escalation", sms_ok))
               ELSE UNCHANGED notifications
            /\ conversations' =
                 [conversations EXCEPT ![conversation] =
                     [@ EXCEPT !.escalated_to_manager = TRUE, !.status = ESCALATED]]
            /\ response' = Reply(op, 200, "result", NoInt,
                                 IF success
                                 THEN "escalate_to_manager: I've forwarded your question"
                                 ELSE "escalate_to_manager: I'll make sure someone gets back")

(***************************************************************************)
(* handle_function_call                                                    *)
(***************************************************************************)
\* A dispatch that also answers transfer_call
ReadOnlyFunctionsAndTransfer ==
    {"get_membership_info", "get_availability", "get_matchi_booking_link", "transfer_call"}

ReadOnlyFunctions == {"get_membership_info", "get_availability", "get_matchi_booking_link"}

handle_function_call(call, functionCall, sms_ok) ==
    LET op == "function-call" IN
    IF ~functionCall.present \/ ~call.present
    THEN \* None.get(...): AttributeError
         /\ response' = InternalServerError(op)
         /\ UNCHANGED store
    ELSE LET conversation == ConversationByCallId(call.id)
             function_name == functionCall.name
             parameters == functionCall.parameters
         IN
         IF conversation = 0
         THEN /\ response' = Reply(op, 200, "error", NoInt, "Conversation not found")
              /\ UNCHANGED store
         ELSE IF function_name \in ReadOnlyFunctions
         THEN /\ response' = Reply(op, 200, "result", NoInt, function_name)
              /\ UNCHANGED store
         ELSE IF function_name = "create_booking"
         THEN create_booking_from_call(parameters, conversation, sms_ok)
         ELSE IF function_name = "save_customer_info"
         THEN save_customer_info(parameters, conversation)
         ELSE IF function_name = "escalate_to_manager"
         THEN escalate_to_manager(parameters, conversation, sms_ok)
         ELSE /\ response' = Reply(op, 200, "error", NoInt,
                                   "Unknown function: " \o function_name)
              /\ UNCHANGED store

(***************************************************************************)
(* handle_message, handle_transcript                                       *)
(***************************************************************************)
NoMessage == [present |-> FALSE, role |-> NULL, content |-> NULL]

MessageInfo(role, content) == [present |-> TRUE, role |-> role, content |-> content]

\* message_data.get("role", "user").lower() against MessageRole
RoleLower(role) ==
    CASE role = "Assistant" -> "assistant"
      [] OTHER -> role

\* A mapping that keeps MessageRole.SYSTEM for the role "system"
db_role_keeping_system(role) ==
    IF RoleLower(role) \in {"assistant", "system"} THEN RoleLower(role) ELSE "customer"

db_role(role) == IF RoleLower(role) = "assistant" THEN "assistant" ELSE "customer"

handle_message(call, message) ==
    LET op == "message" IN
    /\ UNCHANGED <<customers, conversations, bookings, notifications>>
    /\ IF ~call.present
       THEN /\ response' = InternalServerError(op)
            /\ UNCHANGED messages
       ELSE LET conversation == ConversationByCallId(call.id) IN
            IF conversation = 0
            THEN /\ response' = Reply(op, 200, "ok", NoInt, NULL)
                 /\ UNCHANGED messages
            ELSE IF ~message.present
            THEN \* None.get(...): AttributeError
                 /\ response' = InternalServerError(op)
                 /\ UNCHANGED messages
            ELSE /\ Len(messages) < MaxMessages
                 /\ messages' =
                      Append(messages,
                             [conversation_id |-> conversation,
                              role |-> db_role(message.role),
                              content |-> message.content])
                 /\ response' = Reply(op, 200, "ok", NoInt, NULL)

handle_transcript ==
    /\ response' = Reply("transcript", 200, "ok", NoInt, NULL)
    /\ UNCHANGED store

(***************************************************************************)
(* vapi_webhook: the request body is undecodable (json = FALSE), fails     *)
(* VAPIWebhookPayload validation (valid = FALSE), or is a validated event. *)
(***************************************************************************)
ENVIRONMENT == "development"

Event(type, call, functionCall, message) ==
    [json |-> TRUE, valid |-> TRUE, signature |-> NULL, type |-> type, call |-> call,
     functionCall |-> functionCall, message |-> message]

NonJsonBody == [Event(NULL, NoCall, NoFunctionCall, NoMessage) EXCEPT !.json = FALSE]

InvalidBody == [Event(NULL, NoCall, NoFunctionCall, NoMessage) EXCEPT !.valid = FALSE]

\* verify_vapi_signature: False without a signature; with one it reads
\* settings.VAPI_WEBHOOK_SECRET, a field that Settings does not declare:
\* AttributeError
verify_vapi_signature(signature) ==
    IF signature = NULL THEN "False" ELSE "AttributeError"

\* "Route to appropriate handler"
route(body, sms_ok) ==
    IF body.type = "call-start" THEN handle_call_start(body.call)
    ELSE IF body.type = "call-end" THEN handle_call_end(body.call)
    ELSE IF body.type = "function-call"
    THEN handle_function_call(body.call, body.functionCall, sms_ok)
    ELSE IF body.type = "message" THEN handle_message(body.call, body.message)
    ELSE IF body.type = "transcript" THEN handle_transcript
    ELSE /\ response' = Reply("webhook", 400, "detail", NoInt, "Unknown event type")
         /\ UNCHANGED store

\* A webhook that refuses a body it cannot decode
vapi_webhook_in_json_required(environment, body, sms_ok) ==
    /\ UNCHANGED <<now, workers>>
    /\ IF ~body.json
       THEN /\ response' = Reply("webhook", 400, "detail", NoInt, "Invalid JSON")
            /\ UNCHANGED store
       ELSE IF ~body.valid
       THEN /\ response' = Reply("webhook", 422, "detail", NoInt, "Invalid payload")
            /\ UNCHANGED store
       ELSE route(body, sms_ok)

\* A webhook that acknowledges the event types it does not know
vapi_webhook_in_lenient(environment, body, sms_ok) ==
    /\ UNCHANGED <<now, workers>>
    /\ IF ~body.json
       THEN /\ response' = Reply("webhook", 200, "ok", NoInt, "Non-JSON request received")
            /\ UNCHANGED store
       ELSE IF ~body.valid
       THEN /\ response' = Reply("webhook", 422, "detail", NoInt, "Invalid payload")
            /\ UNCHANGED store
       ELSE IF body.type \in {"call-start", "call-end", "function-call", "message"}
       THEN route(body, sms_ok)
       ELSE handle_transcript

\* A webhook that routes the decoded body without validating it
vapi_webhook_in_unvalidated(environment, body, sms_ok) ==
    /\ UNCHANGED <<now, workers>>
    /\ IF ~body.json
       THEN /\ response' = Reply("webhook", 200, "ok", NoInt, "Non-JSON request received")
            /\ UNCHANGED store
       ELSE route(body, sms_ok)

vapi_webhook_in(environment, body, sms_ok) ==
    /\ UNCHANGED <<now, workers>>
    /\ IF environment = "production" /\ verify_vapi_signature(body.signature) = "False"
       THEN /\ response' = Reply("webhook", 401, "detail", NoInt, "Invalid webhook signature")
            /\ UNCHANGED store
       ELSE IF environment = "production"
               /\ verify_vapi_signature(body.signature) = "AttributeError"
       THEN /\ response' = InternalServerError("webhook")
            /\ UNCHANGED store
       ELSE IF ~body.json
       THEN /\ response' = Reply("webhook", 200, "ok", NoInt, "Non-JSON request received")
            /\ UNCHANGED store
       ELSE IF ~body.valid
       THEN /\ response' = Reply("webhook", 422, "detail", NoInt, "Invalid payload")
            /\ UNCHANGED store
       ELSE route(body, sms_ok)

\* The webhook of the deployment, whose mode is settings.ENVIRONMENT
vapi_webhook(body, sms_ok) == vapi_webhook_in(ENVIRONMENT, body, sms_ok)

(***************************************************************************)
(* The events the voice platform delivers.                                 *)
(***************************************************************************)
Parameters(customer_name, customer_phone, question, activity, booking_date, booking_time, name) ==
    [customer_name |-> customer_name, customer_phone |-> customer_phone,
     question |-> question, activity |-> activity, booking_date |-> booking_date,
     booking_time |-> booking_time, name |-> name,
     club_id |-> NoInt, customer_id |-> NoInt]

BookingParameters(activity, booking_date, booking_time) ==
    Parameters("Anna", "+46700000001", NULL, activity, booking_date, booking_time, NULL)

EscalationCalls ==
    {FunctionCall("escalate_to_manager",
                  Parameters("Anna", "+46700000001", q, NULL, NULL, NULL, NULL)) :
        q \in {"Do you have a sauna?", NULL}}

SaveCustomerCalls ==
    {FunctionCall("save_customer_info",
                  Parameters(NULL, NULL, NULL, NULL, NULL, NULL, n)) :
        n \in {"Anna", "Unknown Caller", NULL}}

OtherCalls ==
    {NoFunctionCall} \cup
    {FunctionCall(n, NoParameters) :
        n \in {"get_membership_info", "get_availability", "get_matchi_booking_link",
               "transfer_call", "unknown_function_that_doesnt_exist"}}

CallBookingCalls ==
    {FunctionCall("create_booking", BookingParameters("padel", "2025-06-01", "09:00")),
     FunctionCall("create_booking", BookingParameters("padel", "tomorrow", "09:00")),
     FunctionCall("create_booking", BookingParameters("padel", "2025-06-01", "9am")),
     FunctionCall("create_booking",
                  [BookingParameters("padel", "2025-06-01", "09:00")
                       EXCEPT !.customer_name = NULL]),
     FunctionCall("create_booking",
                  [BookingParameters("padel", "2025-06-01", "09:00")
                       EXCEPT !.customer_phone = NULL]),
     FunctionCall("create_booking", BookingParameters("padel", NULL, "09:00"))}

FunctionCalls == EscalationCalls \cup SaveCustomerCalls \cup OtherCalls \cup CallBookingCalls

Messages ==
    {NoMessage} \cup {MessageInfo(r, "Hello") : r \in {"assistant", "Assistant", "user", "system"}}

CallStart ==
    \E call \in StartCalls :
        vapi_webhook(Event("call-start", call, NoFunctionCall, NoMessage), TRUE)

CallEnd ==
    \E call \in EndCalls :
        vapi_webhook(Event("call-end", call, NoFunctionCall, NoMessage), TRUE)

CallFunction ==
    \E call \in PlainCalls, functionCall \in EscalationCalls \cup OtherCalls,
       sms_ok \in BOOLEAN :
        vapi_webhook(Event("function-call", call, functionCall, NoMessage), sms_ok)

CallMessage ==
    \E call \in PlainCalls, message \in Messages :
        vapi_webhook(Event("message", call, NoFunctionCall, message), TRUE)

CallTranscript ==
    \E call \in PlainCalls :
        vapi_webhook(Event("transcript", call, NoFunctionCall, NoMessage), TRUE)

UnknownEvent ==
    vapi_webhook(Event("something-else", NoCall, NoFunctionCall, NoMessage), TRUE)

NonJson == vapi_webhook(NonJsonBody, TRUE)

Invalid == vapi_webhook(InvalidBody, TRUE)

\* The wall clock (datetime.now / datetime.utcnow), in minutes
Tick ==
    /\ now < MaxClock
    /\ now' = now + 1
    /\ UNCHANGED <<store, response, workers>>

(***************************************************************************)
(* app/routes/booking.py                                                   *)
(***************************************************************************)
\* The conflict query with active_statuses = [CONFIRMED]
check_double_booking_confirmed_only(club_id, resource_name, start_time, end_time, exclude_booking_id) ==
    \E i \in DOMAIN bookings :
        /\ bookings[i].club_id = club_id
        /\ bookings[i].resource_name = resource_name
        /\ bookings[i].status \in {CONFIRMED}
        /\ bookings[i].start_time < end_time
        /\ bookings[i].end_time > start_time
        /\ (exclude_booking_id # 0 => i # exclude_booking_id)

\* The conflict query without the status filter
check_double_booking_any_status(club_id, resource_name, start_time, end_time, exclude_booking_id) ==
    \E i \in DOMAIN bookings :
        /\ bookings[i].club_id = club_id
        /\ bookings[i].resource_name = resource_name
        /\ bookings[i].start_time < end_time
        /\ bookings[i].end_time > start_time
        /\ (exclude_booking_id # 0 => i # exclude_booking_id)

\* The conflict query without the exclusion of the booking being updated
check_double_booking_including_self(club_id, resource_name, start_time, end_time, exclude_booking_id) ==
    \E i \in DOMAIN bookings :
        /\ bookings[i].club_id = club_id
        /\ bookings[i].resource_name = resource_name
        /\ bookings[i].status \in {PENDING, CONFIRMED}
        /\ bookings[i].start_time < end_time
        /\ bookings[i].end_time > start_time

\* The conflict query with closed intervals (<= in place of <)
check_double_booking_closed_intervals(club_id, resource_name, start_time, end_time, exclude_booking_id) ==
    \E i \in DOMAIN bookings :
        /\ bookings[i].club_id = club_id
        /\ bookings[i].resource_name = resource_name
        /\ bookings[i].status \in {PENDING, CONFIRMED}
        /\ bookings[i].start_time <= end_time
        /\ bookings[i].end_time >= start_time
        /\ (exclude_booking_id # 0 => i # exclude_booking_id)

check_double_booking(club_id, resource_name, start_time, end_time, exclude_booking_id) ==
    \E i \in DOMAIN bookings :
        /\ bookings[i].club_id = club_id
        /\ bookings[i].resource_name = resource_name
        /\ bookings[i].status \in {PENDING, CONFIRMED}
        /\ bookings[i].start_time < end_time
        /\ bookings[i].end_time > start_time
        /\ (exclude_booking_id # 0 => i # exclude_booking_id)

\* BookingCreate
BookingCreate(club_id, customer_id, status, resource_name, start_time, end_time) ==
    [club_id |-> club_id, customer_id |-> customer_id, status |-> status,
     resource_name |-> resource_name, start_time |-> start_time, end_time |-> end_time]

create_booking(booking_data, send_confirmation, sms_ok) ==
    LET op == "POST /bookings"
        booking == NewBooking(booking_data.club_id, booking_data.customer_id, NoInt,
                              booking_data.status, booking_data.resource_name,
                              booking_data.start_time, booking_data.end_time,
                              TokenHex(Len(bookings) + 1))
    IN
    /\ IF check_double_booking(booking_data.club_id, booking_data.resource_name,
                               booking_data.start_time, booking_data.end_time, 0)
       THEN /\ response' = Reply(op, 409, "detail", NoInt, booking_data.resource_name)
            /\ UNCHANGED <<bookings, notifications>>
       ELSE /\ Len(bookings) < MaxBookings
            /\ IF send_confirmation /\ booking.status = CONFIRMED
               THEN \* the confirmation is sent and logged, then awaiting the dict
                    \* it returned raises TypeError
                    /\ response' = InternalServerError(op)
                    /\ notifications' =
                         Append(notifications,
                                BookingConfirmation(Len(bookings) + 1, booking, sms_ok))
               ELSE /\ response' = Reply(op, 201, "booking", Len(bookings) + 1, NULL)
                    /\ UNCHANGED notifications
            /\ bookings' = Append(bookings, booking)
    /\ UNCHANGED <<customers, conversations, messages, now, workers>>

\* BookingUpdate after model_dump(exclude_unset=True): an unset field is
\* NULL (NoInt for the times)
BookingUpdate(status, resource_name, start_time, end_time) ==
    [status |-> status, resource_name |-> resource_name,
     start_time |-> start_time, end_time |-> end_time]

update_booking(booking_id, update_data) ==
    LET op == "PATCH /bookings/{id}" IN
    /\ UNCHANGED <<customers, conversations, messages, notifications, now, workers>>
    /\ IF booking_id \notin DOMAIN bookings
       THEN /\ response' = Reply(op, 404, "detail", NoInt, "not found")
            /\ UNCHANGED bookings
       ELSE LET booking == bookings[booking_id]
                new_resource == IF update_data.resource_name # NULL
                                THEN update_data.resource_name ELSE booking.resource_name
                new_start == IF update_data.start_time # NoInt
                             THEN update_data.start_time ELSE booking.start_time
                new_end == IF update_data.end_time # NoInt
                           THEN update_data.end_time ELSE booking.end_time
                touches_slot == \/ update_data.resource_name # NULL
                                \/ update_data.start_time # NoInt
                                \/ update_data.end_time # NoInt
            IN
            IF touches_slot /\ check_double_booking(booking.club_id, new_resource,
                                                    new_start, new_end, booking_id)
            THEN /\ response' = Reply(op, 409, "detail", NoInt, new_resource)
                 /\ UNCHANGED bookings
            ELSE /\ bookings' =
                      [bookings EXCEPT ![booking_id] =
                          [@ EXCEPT !.status = IF update_data.status # NULL
                                               THEN update_data.status ELSE @,
                                    !.resource_name = new_resource,
                                    !.start_time = new_start,
                                    !.end_time = new_end]]
                 /\ response' = Reply(op, 200, "booking", NoInt, NULL)

confirm_booking(booking_id, send_sms, sms_ok) ==
    LET op == "POST /bookings/{id}/confirm" IN
    /\ UNCHANGED <<customers, conversations, messages, now, workers>>
    /\ IF booking_id \notin DOMAIN bookings
       THEN /\ response' = Reply(op, 404, "detail", NoInt, "not found")
            /\ UNCHANGED <<bookings, notifications>>
       ELSE LET booking == [bookings[booking_id] EXCEPT !.status = CONFIRMED] IN
            /\ bookings' = [bookings EXCEPT ![booking_id] = booking]
            /\ IF send_sms
               THEN \* the confirmation is sent and logged, then awaiting the dict
                    \* it returned raises TypeError
                    /\ Len(notifications) < MaxNotifications
                    /\ notifications' =
                         Append(notifications,
                                BookingConfirmation(booking_id, booking, sms_ok))
                    /\ response' = InternalServerError(op)
               ELSE /\ UNCHANGED notifications
                    /\ response' = Reply(op, 200, "message", NoInt, "Booking confirmed")

cancel_booking(booking_id, reason) ==
    LET op == "POST /bookings/{id}/cancel" IN
    /\ UNCHANGED <<customers, conversations, messages, notifications, now, workers>>
    /\ IF booking_id \notin DOMAIN bookings
       THEN /\ response' = Reply(op, 404, "detail", NoInt, "not found")
            /\ UNCHANGED bookings
       ELSE /\ bookings' =
                 [bookings EXCEPT ![booking_id] =
                     [@ EXCEPT !.status = CANCELLED,
                               !.cancellation_reason = reason,
                               !.cancelled_at = now,
                               !.cancelled_by = "system"]]
            /\ response' = Reply(op, 200, "message", NoInt, "Booking cancelled")

\* An availability query that counts only the confirmed bookings
check_availability_confirmed_only(club_id, resource_name, start_time, end_time) ==
    LET has_conflict == check_double_booking_confirmed_only(club_id, resource_name, start_time, end_time, 0)
    IN
    /\ response' = Reply("GET /bookings/check-availability", 200,
                         IF has_conflict THEN "unavailable" ELSE "available",
                         NoInt, resource_name)
    /\ UNCHANGED <<store, now, workers>>

check_availability(club_id, resource_name, start_time, end_time) ==
    LET has_conflict == check_double_booking(club_id, resource_name, start_time, end_time, 0)
    IN
    /\ response' = Reply("GET /bookings/check-availability", 200,
                         IF has_conflict THEN "unavailable" ELSE "available",
                         NoInt, resource_name)
    /\ UNCHANGED <<store, now, workers>>

(***************************************************************************)
(* The requests of the staff interface and the create_booking function     *)
(* calls of the assistant.                                                 *)
(***************************************************************************)
ResourceNames == {"Padel Court", "Tennis Court"}

\* [start, end) in half-hour slots from 09:00: the staff book 09:00-10:00 and
\* the back-to-back 10:00-11:00; the assistant's 09:30-10:30 overlaps both.
\* The availability query is also asked about an empty and an inverted one.
SlotIntervals == {<<0, 2>>, <<2, 4>>}

Intervals == SlotIntervals \cup {<<1, 1>>, <<3, 1>>}

BookingIds == 1..MaxBookings

CustomersOf(club_id) == {i \in DOMAIN customers : customers[i].club_id = club_id}

\* The staff requests are for club 1; club 2 is booked by its assistant
StaffClubs == {1}

BookingRequests ==
    {BookingCreate(c, cu, st, r, iv[1], iv[2]) :
        c \in StaffClubs, cu \in DOMAIN customers, st \in BookingStatuses,
        r \in ResourceNames, iv \in SlotIntervals}

\* send_confirmation is read only for a confirmed booking; it defaults to true
SendConfirmations(status) == IF status = CONFIRMED THEN BOOLEAN ELSE {TRUE}

\* A patch sets the status, the resource or the interval
BookingUpdates ==
    {BookingUpdate(st, NULL, NoInt, NoInt) : st \in BookingStatuses} \cup
    {BookingUpdate(NULL, r, NoInt, NoInt) : r \in ResourceNames} \cup
    {BookingUpdate(NULL, NULL, iv[1], iv[2]) : iv \in SlotIntervals}

BookingCalls ==
    {FunctionCall("create_booking", BookingParameters(a, "2025-06-01", t)) :
        a \in {"padel", "tennis"}, t \in {"09:00", "09:30"}}

ApiCreate ==
    \E booking_data \in BookingRequests :
        \E send_confirmation \in SendConfirmations(booking_data.status) :
            /\ booking_data.customer_id \in CustomersOf(booking_data.club_id)
            /\ create_booking(booking_data, send_confirmation, TRUE)

ApiUpdate ==
    \E booking_id \in BookingIds, update_data \in BookingUpdates :
        update_booking(booking_id, update_data)

ApiConfirm ==
    \E booking_id \in BookingIds, send_sms \in BOOLEAN :
        confirm_booking(booking_id, send_sms, TRUE)

ApiCancel ==
    \E booking_id \in BookingIds :
        cancel_booking(booking_id, "customer request")

ApiAvailability ==
    \E c \in Clubs, r \in ResourceNames, iv \in Intervals :
        check_availability(c, r, iv[1], iv[2])

CallBooking ==
    \E id \in CallIds, functionCall \in BookingCalls :
        vapi_webhook(Event("function-call", PlainCall(id), functionCall, NoMessage), TRUE)

(***************************************************************************)
(* Requests in flight.  The server processes (uvicorn workers) share only  *)
(* the database: a handler runs one statement at a time, and between two   *)
(* of its statements another process may run its own.  A worker holds the  *)
(* locals of the handler it is in; pc names the statement it runs next.    *)
(***************************************************************************)
Workers == {1, 2}

NoBookingData == BookingCreate(0, 0, NULL, NULL, NoInt, NoInt)

Idle ==
    [pc |-> "idle", booking_data |-> NoBookingData, call |-> NoCall,
     club |-> 0, customer |-> 0]

InFlight(pc) == Cardinality({w \in Workers : workers[w].pc = pc})

\* create_booking up to its raise or its INSERT: the conflict query
create_booking_check(w, booking_data) ==
    /\ workers[w].pc = "idle"
    /\ UNCHANGED <<store, now>>
    /\ IF check_double_booking(booking_data.club_id, booking_data.resource_name,
                               booking_data.start_time, booking_data.end_time, 0)
       THEN /\ response' = Reply("POST /bookings", 409, "detail", NoInt,
                                 booking_data.resource_name)
            /\ UNCHANGED workers
       ELSE /\ Len(bookings) + InFlight("insert_booking") < MaxBookings
            /\ workers' = [workers EXCEPT ![w] =
                               [@ EXCEPT !.pc = "insert_booking",
                                         !.booking_data = booking_data]]
            /\ UNCHANGED response

\* create_booking from db.add(booking) on, for send_confirmation = false
create_booking_insert(w) ==
    LET booking_data == workers[w].booking_data IN
    /\ workers[w].pc = "insert_booking"
    /\ bookings' =
         Append(bookings,
                NewBooking(booking_data.club_id, booking_data.customer_id, NoInt,
                           booking_data.status, booking_data.resource_name,
                           booking_data.start_time, booking_data.end_time,
                           TokenHex(Len(bookings) + 1)))
    /\ response' = Reply("POST /bookings", 201, "booking", Len(bookings) + 1, NULL)
    /\ workers' = [workers EXCEPT ![w] = Idle]
    /\ UNCHANGED <<customers, conversations, messages, notifications, now>>

\* handle_call_start up to its first INSERT: the club and customer queries
call_start_lookup(w, call) ==
    LET op == "call-start" IN
    /\ workers[w].pc = "idle"
    /\ UNCHANGED <<store, now>>
    /\ IF ~call.present \/ call.customer = NULL
       THEN /\ response' = InternalServerError(op)
            /\ UNCHANGED workers
       ELSE IF call.id = ""
       THEN /\ response' = Reply(op, 200, "error", NoInt, "Missing call ID")
            /\ UNCHANGED workers
       ELSE IF call.customer = "{}"
       THEN /\ response' = Reply(op, 200, "error", NoInt, "Missing phone number")
            /\ UNCHANGED workers
       ELSE LET club == IF call.assistantId # NULL
                        THEN ClubByAssistantId(call.assistantId) ELSE 0
            IN
            IF club = 0
            THEN /\ response' = Reply(op, 200, "error", NoInt, "Club not found")
                 /\ UNCHANGED workers
            ELSE LET found == CustomerByPhone(call.customer, club) IN
                 /\ found = 0 =>
                        Len(customers) + InFlight("insert_customer") < MaxCustomers
                 /\ workers' = [workers EXCEPT ![w] =
                                    [@ EXCEPT !.pc = IF found = 0
                                                     THEN "insert_customer"
                                                     ELSE "insert_conversation",
                                              !.call = call,
                                              !.club = club,
                                              !.customer = found]]
                 /\ UNCHANGED response

\* handle_call_start: db.add(customer), db.commit(), db.refresh(customer)
call_start_insert_customer(w) ==
    /\ workers[w].pc = "insert_customer"
    /\ customers' = Append(customers,
                           NewCustomer(workers[w].club, workers[w].call.customer))
    /\ workers' = [workers EXCEPT ![w] =
                       [@ EXCEPT !.pc = "insert_conversation",
                                 !.customer = Len(customers) + 1]]
    /\ UNCHANGED <<conversations, messages, bookings, notifications, now, response>>

\* handle_call_start: db.add(conversation), db.commit() and the return
call_start_insert_conversation(w) ==
    LET op == "call-start"
        call == workers[w].call
    IN
    /\ workers[w].pc = "insert_conversation"
    /\ IF CallIdTaken(call.id)
       THEN \* IntegrityError out of db.commit()
            /\ response' = InternalServerError(op)
            /\ UNCHANGED conversations
       ELSE /\ conversations' =
                 Append(conversations,
                        NewConversation(workers[w].club, workers[w].customer, call.id))
            /\ response' = Reply(op, 200, "ok", Len(conversations) + 1, NULL)
    /\ workers' = [workers EXCEPT ![w] = Idle]
    /\ UNCHANGED <<customers, messages, bookings, notifications, now>>

(***************************************************************************)
(* The store after construction: the clubs exist, every other table is     *)
(* empty.                                                                  *)
(***************************************************************************)
Init ==
    /\ customers = <<>>
    /\ conversations = <<>>
    /\ messages = <<>>
    /\ bookings = <<>>
    /\ notifications = <<>>
    /\ now = 0
    /\ response = NoResponse
    /\ workers = [w \in Workers |-> Idle]

Next ==
    \/ CallStart
    \/ CallEnd
    \/ CallFunction
    \/ CallTranscript
    \/ UnknownEvent
    \/ NonJson
    \/ Invalid
    \/ Tick

Spec == Init /\ [][Next]_vars

(***************************************************************************)
(* The booking operations, from a store in which each club has taken one   *)
(* call: call "abc" from the club-1 assistant, call "xyz" from club 2's.   *)
(***************************************************************************)
BookInit ==
    /\ customers = <<NewCustomer(1, "+46700000001"), NewCustomer(2, "+46700000001")>>
    /\ conversations = <<NewConversation(1, 1, "abc"), NewConversation(2, 2, "xyz")>>
    /\ messages = <<>>
    /\ bookings = <<>>
    /\ notifications = <<>>
    /\ now = 0
    /\ response = NoResponse
    /\ workers = [w \in Workers |-> Idle]

BookNext ==
    \/ ApiCreate
    \/ ApiUpdate
    \/ ApiConfirm
    \/ ApiCancel
    \/ CallBooking

BookSpec == BookInit /\ [][BookNext]_vars

(***************************************************************************)
(* The assistant's create_booking calls over two clock minutes, with the   *)
(* staff cancelling.                                                       *)
(***************************************************************************)
CallBookNext ==
    \/ CallBooking
    \/ ApiCancel
    \/ Tick

CallBookSpec == BookInit /\ [][CallBookNext]_vars

(***************************************************************************)
(* Two server processes: booking requests for one court of club 1 whose    *)
(* intervals overlap each other, and call-start deliveries, after call     *)
(* "abc" of the club-1 assistant has started.                              *)
(***************************************************************************)
OverlappingIntervals == {<<0, 2>>, <<1, 3>>}

ConcRequests ==
    {BookingCreate(1, 1, st, "Padel Court", iv[1], iv[2]) :
        st \in {PENDING, CONFIRMED}, iv \in OverlappingIntervals}

ConcCalls ==
    {StartCall(id, a, "+46700000001") : id \in CallIds, a \in {"asst_1", "asst_2"}}

CreateCheck ==
    \E w \in Workers, booking_data \in ConcRequests :
        create_booking_check(w, booking_data)

CreateInsert == \E w \in Workers : create_booking_insert(w)

StartLookup == \E w \in Workers, call \in ConcCalls : call_start_lookup(w, call)

StartInsertCustomer == \E w \in Workers : call_start_insert_customer(w)

StartInsertConversation == \E w \in Workers : call_start_insert_conversation(w)

ConcInit ==
    /\ customers = <<NewCustomer(1, "+46700000001")>>
    /\ conversations = <<NewConversation(1, 1, "abc")>>
    /\ messages = <<>>
    /\ bookings = <<>>
    /\ notifications = <<>>
    /\ now = 0
    /\ response = NoResponse
    /\ workers = [w \in Workers |-> Idle]

ConcNext ==
    \/ CreateCheck
    \/ CreateInsert
    \/ StartLookup
    \/ StartInsertCustomer
    \/ StartInsertConversation

ConcSpec == ConcInit /\ [][ConcNext]_vars

(***************************************************************************)
(* app/routes/notification.py                                              *)
(***************************************************************************)
\* The authenticated, active user of a request: role and club
User(role, club_id) == [role |-> role, club_id |-> club_id]

\* get_club_admin = require_role(UserRole.CLUB_ADMIN): the role must be in
\* the allowed roles, and club_admin is the only one listed
get_club_admin(current_user) == current_user.role \in {"club_admin"}

\* "Check access" of the notification routes
AccessDenied(current_user, notification) ==
    current_user.role # "super_admin" /\ notification.club_id # current_user.club_id

create_notification(club_id, notification_type, current_user) ==
    LET op == "POST /notifications" IN
    /\ UNCHANGED <<customers, conversations, messages, bookings, now, workers>>
    /\ IF ~get_club_admin(current_user)
       THEN /\ response' = Reply(op, 403, "detail", NoInt, "Insufficient permissions")
            /\ UNCHANGED notifications
       ELSE /\ Len(notifications) < MaxNotifications
            /\ notifications' =
                 Append(notifications,
                        [NewNotification(club_id, NoInt, NoInt, NoInt, notification_type, TRUE)
                            EXCEPT !.status = PENDING])
            /\ response' = Reply(op, 201, "notification", Len(notifications) + 1, NULL)

\* NotificationUpdate after model_dump(exclude_unset=True): an unset status
\* is NULL; set_error tells whether error_message is in the patch
NotificationUpdate(status, set_error, error_message) ==
    [status |-> status, set_error |-> set_error, error_message |-> error_message]

update_notification(notification_id, notification_data, current_user) ==
    LET op == "PATCH /notifications/{id}" IN
    /\ UNCHANGED <<customers, conversations, messages, bookings, now, workers>>
    /\ IF ~get_club_admin(current_user)
       THEN /\ response' = Reply(op, 403, "detail", NoInt, "Insufficient permissions")
            /\ UNCHANGED notifications
       ELSE IF notification_id \notin DOMAIN notifications
       THEN /\ response' = Reply(op, 404, "detail", NoInt, "not found")
            /\ UNCHANGED notifications
       ELSE IF AccessDenied(current_user, notifications[notification_id])
       THEN /\ response' = Reply(op, 403, "detail", NoInt, "Access denied")
            /\ UNCHANGED notifications
       ELSE /\ notifications' =
                 [notifications EXCEPT ![notification_id] =
                     [@ EXCEPT !.status = IF notification_data.status # NULL
                                          THEN notification_data.status ELSE @,
                               !.error_message = IF notification_data.set_error
                                                 THEN notification_data.error_message
                                                 ELSE @]]
            /\ response' = Reply(op, 200, "notification", notification_id, NULL)

\* retry_notification that lets a notification in any status be retried
retry_notification_any_status(notification_id, current_user) ==
    LET op == "POST /notifications/{id}/retry" IN
    /\ UNCHANGED <<customers, conversations, messages, bookings, now, workers>>
    /\ IF ~get_club_admin(current_user)
       THEN /\ response' = Reply(op, 403, "detail", NoInt, "Insufficient permissions")
            /\ UNCHANGED notifications
       ELSE IF notification_id \notin DOMAIN notifications
       THEN /\ response' = Reply(op, 404, "detail", NoInt, "not found")
            /\ UNCHANGED notifications
       ELSE IF AccessDenied(current_user, notifications[notification_id])
       THEN /\ response' = Reply(op, 403, "detail", NoInt, "Access denied")
            /\ UNCHANGED notifications
       ELSE /\ notifications[notification_id].retry_count < MaxRetryCount
            /\ notifications' =
                 [notifications EXCEPT ![notification_id] =
                     [@ EXCEPT !.status = PENDING,
                               !.error_message = NULL,
                               !.retry_count = @ + 1]]
            /\ response' = Reply(op, 200, "notification", notification_id, NULL)

retry_notification(notification_id, current_user) ==
    LET op == "POST /notifications/{id}/retry" IN
    /\ UNCHANGED <<customers, conversations, messages, bookings, now, workers>>
    /\ IF ~get_club_admin(current_user)
       THEN /\ response' = Reply(op, 403, "detail", NoInt, "Insufficient permissions")
            /\ UNCHANGED notifications
       ELSE IF notification_id \notin DOMAIN notifications
       THEN /\ response' = Reply(op, 404, "detail", NoInt, "not found")
            /\ UNCHANGED notifications
       ELSE IF AccessDenied(current_user, notifications[notification_id])
       THEN /\ response' = Reply(op, 403, "detail", NoInt, "Access denied")
            /\ UNCHANGED notifications
       ELSE IF notifications[notification_id].status \notin {FAILED, BOUNCED}
       THEN /\ response' = Reply(op, 400, "detail", NoInt,
                                 "Can only retry failed or bounced notifications")
            /\ UNCHANGED notifications
       ELSE /\ notifications[notification_id].retry_count < MaxRetryCount
            /\ notifications' =
                 [notifications EXCEPT ![notification_id] =
                     [@ EXCEPT !.status = PENDING,
                               !.error_message = NULL,
                               !.retry_count = @ + 1]]
            /\ response' = Reply(op, 200, "notification", notification_id, NULL)

Users ==
    {User("club_admin", 1), User("club_admin", 2), User("super_admin", NoInt),
     User("club_staff", 1)}

NotificationIds == 1..MaxNotifications

NotificationUpdates ==
    {NotificationUpdate(st, FALSE, NULL) : st \in NotificationStatuses} \cup
    {NotificationUpdate(st, TRUE, "Email bounced") : st \in {FAILED, BOUNCED}}

NotifCreate ==
    \E club_id \in Clubs, current_user \in Users :
        create_notification(club_id, "booking_reminder", current_user)

NotifUpdate ==
    \E notification_id \in NotificationIds, notification_data \in NotificationUpdates,
       current_user \in Users :
        update_notification(notification_id, notification_data, current_user)

NotifRetry ==
    \E notification_id \in NotificationIds, current_user \in Users :
        retry_notification(notification_id, current_user)

\* The manager SMS of an escalation, which the provider may fail to send
NotifEscalate ==
    \E functionCall \in {f \in EscalationCalls : f.parameters.question # NULL},
       sms_ok \in BOOLEAN :
        vapi_webhook(Event("function-call", PlainCall("abc"), functionCall, NoMessage),
                     sms_ok)

NotifNext ==
    \/ NotifCreate
    \/ NotifUpdate
    \/ NotifRetry
    \/ NotifEscalate

NotifSpec == BookInit /\ [][NotifNext]_vars

(***************************************************************************)
(* The three function calls that write, on the calls of both clubs, with   *)
(* parameters that also name a club and a customer of the caller's         *)
(* choosing (the parameters dict is free-form).                            *)
(***************************************************************************)
NamedIds == {<<NoInt, NoInt>>, <<1, 1>>, <<2, 2>>}

WritingCalls ==
    {FunctionCall("create_booking",
                  [BookingParameters("padel", "2025-06-01", "09:00")
                       EXCEPT !.customer_phone = phone]) : phone \in Phones}
    \cup {FunctionCall("save_customer_info",
                       Parameters(NULL, NULL, NULL, NULL, NULL, NULL, "Anna")),
          FunctionCall("escalate_to_manager",
                       Parameters("Anna", "+46700000001", "Do you have a sauna?",
                                  NULL, NULL, NULL, NULL))}

NamingCalls ==
    {[functionCall EXCEPT !.parameters.club_id = ids[1],
                          !.parameters.customer_id = ids[2]] :
        functionCall \in WritingCalls, ids \in NamedIds}

CallWrite ==
    \E call \in PlainCalls, functionCall \in NamingCalls, sms_ok \in BOOLEAN :
        vapi_webhook(Event("function-call", call, functionCall, NoMessage), sms_ok)

FuncNext ==
    \/ CallWrite
    \/ Tick

FuncSpec == BookInit /\ [][FuncNext]_vars

(***************************************************************************)
(* The operations that send a booking confirmation, with a provider that   *)
(* may fail to send (send_sms then reports success False).                 *)
(***************************************************************************)
SmsRequests ==
    {BookingCreate(c, cu, st, r, iv[1], iv[2]) :
        c \in StaffClubs, cu \in {1}, st \in {PENDING, CONFIRMED},
        r \in ResourceNames, iv \in SlotIntervals}

SmsCreate ==
    \E booking_data \in SmsRequests, send_confirmation \in BOOLEAN, sms_ok \in BOOLEAN :
        create_booking(booking_data, send_confirmation, sms_ok)

SmsConfirm ==
    \E booking_id \in BookingIds, send_sms \in BOOLEAN, sms_ok \in BOOLEAN :
        confirm_booking(booking_id, send_sms, sms_ok)

SmsCallBooking ==
    \E id \in CallIds, functionCall \in BookingCalls, sms_ok \in BOOLEAN :
        vapi_webhook(Event("function-call", PlainCall(id), functionCall, NoMessage), sms_ok)

SmsNext ==
    \/ SmsCreate
    \/ SmsConfirm
    \/ SmsCallBooking
    \/ Tick

SmsSpec == BookInit /\ [][SmsNext]_vars

(***************************************************************************)
(* The assistant's create_booking calls over the activities a caller may   *)
(* name, with and without a booking_time.                                  *)
(***************************************************************************)
Activities == {"tennis", "padel", "gym", "yoga class", "PADEL", NULL}

BookingTimes == {"09:00", "09:30", NULL}

ActivityCalls ==
    {FunctionCall("create_booking", BookingParameters(a, "2025-06-01", t)) :
        a \in Activities, t \in BookingTimes}

CallActivity ==
    \E id \in CallIds, functionCall \in ActivityCalls :
        vapi_webhook(Event("function-call", PlainCall(id), functionCall, NoMessage), TRUE)

\* create_booking calls, most of them with parameters that do not parse or
\* are missing
CallBadBooking ==
    \E id \in CallIds, functionCall \in CallBookingCalls :
        vapi_webhook(Event("function-call", PlainCall(id), functionCall, NoMessage), TRUE)

ActivityNext ==
    \/ CallActivity
    \/ CallBadBooking
    \/ Tick

ActivitySpec == BookInit /\ [][ActivityNext]_vars

(***************************************************************************)
(* The webhook after call "abc" of club 1 has started: the events that     *)
(* follow a call-start, for this call and for the call id "xyz" that no    *)
(* conversation carries.                                                   *)
(***************************************************************************)
HookInit ==
    /\ customers = <<NewCustomer(1, "+46700000001")>>
    /\ conversations = <<NewConversation(1, 1, "abc")>>
    /\ messages = <<>>
    /\ bookings = <<>>
    /\ notifications = <<>>
    /\ now = 0
    /\ response = NoResponse
    /\ workers = [w \in Workers |-> Idle]

HookNext ==
    \/ CallFunction
    \/ CallBadBooking
    \/ CallMessage
    \/ CallTranscript
    \/ CallEnd
    \/ UnknownEvent
    \/ NonJson
    \/ Invalid

HookSpec == HookInit /\ [][HookNext]_vars

\* The webhook in either runtime mode over one database: the bodies sent,
\* each with the X-Vapi-Signature header absent (NULL), not the digest of
\* the body ("deadbeef"), or the HMAC-SHA256 of the body ("hmac")
ModeBodies ==
    {Event("message", call, NoFunctionCall, message) :
         call \in PlainCalls, message \in Messages}
    \cup {Event("function-call", call, functionCall, NoMessage) :
              call \in PlainCalls, functionCall \in EscalationCalls \cup OtherCalls}
    \cup {Event("call-end", call, NoFunctionCall, NoMessage) : call \in EndCalls}
    \cup {Event("something-else", NoCall, NoFunctionCall, NoMessage),
          NonJsonBody, InvalidBody}

ModeNext ==
    \E environment \in {"development", "production"},
       signature \in {NULL, "deadbeef", "hmac"}, body \in ModeBodies :
        vapi_webhook_in(environment, [body EXCEPT !.signature = signature], TRUE)

ModeSpec == HookInit /\ [][ModeNext]_vars

\* A call of a customer who is anywhere in the acquisition funnel
\* (CustomerStatus: lead, interested, trial, member, inactive)
FunnelInit ==
    /\ \E status \in {LEAD, INTERESTED, "trial", "member", "inactive"} :
           customers = <<[NewCustomer(1, "+46700000001") EXCEPT !.status = status]>>
    /\ conversations = <<NewConversation(1, 1, "abc")>>
    /\ messages = <<>>
    /\ bookings = <<>>
    /\ notifications = <<>>
    /\ now = 0
    /\ response = NoResponse
    /\ workers = [w \in Workers |-> Idle]

CallSave ==
    \E call \in PlainCalls, functionCall \in SaveCustomerCalls :
        vapi_webhook(Event("function-call", call, functionCall, NoMessage), TRUE)

FunnelNext ==
    \/ CallSave
    \/ CallMessage
    \/ CallEnd

FunnelSpec == FunnelInit /\ [][FunnelNext]_vars

\* The availability query beside the requests that fill and free the slots
AvailabilityNext ==
    \/ ApiAvailability
    \/ ApiCreate
    \/ ApiCancel
    \/ CallBooking

AvailabilitySpec == BookInit /\ [][AvailabilityNext]_vars

\* The life of the calls: after call "abc" of club 1 has started, further
\* calls start, the assistant escalates, messages arrive and calls end
CallLifeNext ==
    \/ CallStart
    \/ CallEnd
    \/ CallMessage
    \/ NotifEscalate

CallLifeSpec == HookInit /\ [][CallLifeNext]_vars

\* At-least-once delivery of the call-start events, one event at a time.
\* The request that worker 1 has received is workers[1].call.  The platform
\* sends a call-start when it holds no event or its last one was answered
\* with 200; the server handles the request received; on an answer other
\* than 200 (the 500 of the global exception handler) the platform sends the
\* same event again.
RedeliveryNext ==
    \/ \E call \in StartCalls \ {NoCall} :
          /\ response = NoResponse \/ response.status = 200
          /\ workers' = [workers EXCEPT ![1].call = call]
          /\ response' = [NoResponse EXCEPT !.op = "sent"]
          /\ UNCHANGED <<store, now>>
    \/ /\ response.op = "sent"
       /\ vapi_webhook(Event("call-start", workers[1].call, NoFunctionCall, NoMessage), TRUE)
    \/ /\ response.status \notin {0, 200}
       /\ response' = [NoResponse EXCEPT !.op = "sent"]
       /\ UNCHANGED <<store, now, workers>>

\* The platform keeps delivering and the server keeps answering
RedeliverySpec == HookInit /\ [][RedeliveryNext]_vars /\ WF_vars(RedeliveryNext)

(***************************************************************************)
(* Properties.                                                             *)
(***************************************************************************)
ActiveStatuses == {PENDING, CONFIRMED}

TerminalStatuses == {CANCELLED, COMPLETED, NO_SHOW}

\* Booking b lies on the resource of the club and meets [start_time, end_time)
OnSlot(b, club_id, resource_name, start_time, end_time) ==
    /\ b.club_id = club_id
    /\ b.resource_name = resource_name
    /\ b.start_time < end_time
    /\ b.end_time > start_time

SlotTaken(club_id, resource_name, start_time, end_time) ==
    \E i \in DOMAIN bookings :
        /\ bookings[i].status \in ActiveStatuses
        /\ OnSlot(bookings[i], club_id, resource_name, start_time, end_time)

\* C1: in every state reachable by API create, function-call create_booking,
\* update, confirm and cancel, no two distinct bookings of the same club and
\* resource_name that are both pending or confirmed have overlapping
\* intervals [start_time, end_time).
NoDoubleBooking ==
    \A i, j \in DOMAIN bookings :
        (/\ i # j
         /\ bookings[i].status \in ActiveStatuses
         /\ bookings[j].status \in ActiveStatuses
         /\ bookings[i].club_id = bookings[j].club_id
         /\ bookings[i].resource_name = bookings[j].resource_name)
        => ~(/\ bookings[i].start_time < bookings[j].end_time
             /\ bookings[i].end_time > bookings[j].start_time)

\* C2: when create-booking requests for the same club, the same resource_name
\* and overlapping intervals run concurrently, at most one of them persists
\* an active booking: no request inserts its row while an active booking
\* holds its slot.
ConcurrentCreatesExclusive ==
    [][\A w \in Workers :
          create_booking_insert(w)
          => ~SlotTaken(workers[w].booking_data.club_id,
                        workers[w].booking_data.resource_name,
                        workers[w].booking_data.start_time,
                        workers[w].booking_data.end_time)]_vars

\* C3: POST /bookings for a (club, resource_name, interval) that overlaps a
\* pending or confirmed booking of that club and resource fails with 409,
\* the detail names the resource, and no booking row is added.
CreateConflictRejected ==
    [][response'.op = "POST /bookings" =>
       \A club_id \in StaffClubs, resource_name \in ResourceNames, iv \in SlotIntervals :
          SlotTaken(club_id, resource_name, iv[1], iv[2])
          => \A customer_id \in CustomersOf(club_id), status \in BookingStatuses :
                \A send_confirmation \in SendConfirmations(status) :
                   create_booking(BookingCreate(club_id, customer_id, status,
                                                resource_name, iv[1], iv[2]),
                                  send_confirmation, TRUE)
                   => (/\ response'.status = 409
                       /\ response'.detail = resource_name
                       /\ bookings' = bookings)]_vars

\* C3: a create was just refused with 409 for a resource on which an active
\* booking stands.
CreateConflictRejectedWitness ==
    /\ response.op = "POST /bookings"
    /\ response.status = 409
    /\ \E i \in DOMAIN bookings :
          /\ bookings[i].status \in ActiveStatuses
          /\ bookings[i].resource_name = response.detail

\* C4: a create_booking function call whose (resource, interval) overlaps an
\* active booking of the conversation's club, a re-delivery of the same call
\* included, returns an {error} payload and persists no new booking.
CallBookingConflictRejected ==
    [][\A id \in CallIds, functionCall \in BookingCalls :
          LET conversation == ConversationByCallId(id)
              parameters == functionCall.parameters
              start_time == TimeSlot(parameters.booking_time)
          IN
          (/\ conversation # 0
           /\ SlotTaken(conversations[conversation].club_id,
                        resource_map(parameters.activity),
                        start_time, start_time + Hour)
           /\ vapi_webhook(Event("function-call", PlainCall(id), functionCall,
                                 NoMessage), TRUE))
          => (/\ response'.body = "error"
              /\ bookings' = bookings)]_vars

\* C5: a cancelled, completed or no_show booking never blocks a slot: a
\* create whose slot is met only by bookings in those statuses is not refused
\* with 409 and adds its row, and answers 201 with the new booking unless a
\* confirmation SMS is due.
TerminalNeverBlocks ==
    [][response'.op = "POST /bookings" =>
       \A club_id \in StaffClubs, resource_name \in ResourceNames, iv \in SlotIntervals :
          (\A i \in DOMAIN bookings :
               OnSlot(bookings[i], club_id, resource_name, iv[1], iv[2])
               => bookings[i].status \in TerminalStatuses)
          => \A customer_id \in CustomersOf(club_id), status \in BookingStatuses :
                \A send_confirmation \in SendConfirmations(status) :
                   create_booking(BookingCreate(club_id, customer_id, status,
                                                resource_name, iv[1], iv[2]),
                                  send_confirmation, TRUE)
                   => (/\ response'.status # 409
                       /\ Len(bookings') = Len(bookings) + 1
                       /\ bookings'[Len(bookings')].status = status
                       /\ OnSlot(bookings'[Len(bookings')], club_id, resource_name,
                                 iv[1], iv[2])
                       /\ ~(send_confirmation /\ status = CONFIRMED)
                          => (response'.status = 201 /\ response'.id = Len(bookings'))
                       /\ \A i \in DOMAIN bookings : bookings'[i] = bookings[i])]_vars

\* C5: booking 1 was cancelled through the cancel endpoint and booking 2 was
\* just created, active, on the same resource over an overlapping interval.
TerminalNeverBlocksWitness ==
    /\ response.op = "POST /bookings"
    /\ response.status = 201
    /\ response.id = 2
    /\ Len(bookings) = 2
    /\ bookings[1].status = CANCELLED
    /\ bookings[1].cancelled_by = "system"
    /\ bookings[2].status \in ActiveStatuses
    /\ OnSlot(bookings[2], bookings[1].club_id, bookings[1].resource_name,
              bookings[1].start_time, bookings[1].end_time)

\* C6: in every reachable state there is at most one Conversation row per
\* vapi_call_id, whatever interleaving of call-start events is delivered.
OneConversationPerCallId ==
    \A i, j \in DOMAIN conversations :
        conversations[i].vapi_call_id = conversations[j].vapi_call_id => i = j

\* C6: both call ids have their conversation and a further call-start for
\* one of them has just been refused by the index.
OneConversationPerCallIdWitness ==
    /\ response.op = "call-start"
    /\ response.status = 500
    /\ \A id \in CallIds : \E i \in DOMAIN conversations :
          conversations[i].vapi_call_id = id

\* The call-start was delivered before: its call id has a conversation of the
\* assistant's club with a customer of the caller's number.
DeliveredBefore(call) ==
    /\ call.present
    /\ \E i \in DOMAIN conversations :
          /\ conversations[i].vapi_call_id = call.id
          /\ conversations[i].club_id = ClubByAssistantId(call.assistantId)
          /\ customers[conversations[i].customer_id].phone = call.customer

\* C7: a call-start delivered a second time with the same call id, caller
\* number and assistant id is acknowledged with success, returns the
\* conversation_id of the first delivery and creates no Conversation or
\* Customer.
CallStartRedeliveryIdempotent ==
    [][\A call \in StartCalls :
          (/\ DeliveredBefore(call)
           /\ vapi_webhook(Event("call-start", call, NoFunctionCall, NoMessage), TRUE))
          => (/\ response'.status = 200
              /\ response'.body = "ok"
              /\ response'.id = ConversationByCallId(call.id)
              /\ conversations' = conversations
              /\ customers' = customers)]_vars

\* C8: a call-end delivered for a conversation that is already completed
\* returns success and leaves status, ended_at, call_duration, call_cost and
\* outcome as the first call-end set them.
CallEndRedeliveryNoOp ==
    [][\A call \in EndCalls, i \in DOMAIN conversations :
          (/\ call.present
           /\ conversations[i].vapi_call_id = call.id
           /\ conversations[i].status = COMPLETED
           /\ vapi_webhook(Event("call-end", call, NoFunctionCall, NoMessage), TRUE))
          => (/\ response'.status = 200
              /\ conversations'[i] = conversations[i])]_vars

\* C9: once a conversation has been escalated by escalate_to_manager, a later
\* call-end for its call id leaves its status escalated.
EscalatedSurvivesCallEnd ==
    [][\A call \in EndCalls, i \in DOMAIN conversations :
          (/\ call.present
           /\ conversations[i].vapi_call_id = call.id
           /\ conversations[i].escalated_to_manager
           /\ conversations[i].status = ESCALATED
           /\ vapi_webhook(Event("call-end", call, NoFunctionCall, NoMessage), TRUE))
          => conversations'[i].status = ESCALATED]_vars

KnownEventTypes == {"call-start", "call-end", "function-call", "message", "transcript"}

\* C10: every decodable, schema-valid webhook payload of a known type is
\* answered 200, whatever the domain outcome: no exception leaves the handler.
KnownEventsAcknowledged ==
    response.op \in KnownEventTypes => response.status = 200

\* The rows of a table that a step wrote: inserted, or changed in place
Written(before, after) ==
    {i \in DOMAIN after : i \notin DOMAIN before \/ after[i] # before[i]}

\* C11: every record a function call creates or modifies belongs to the club
\* of the conversation matched by the call id: the bookings and notifications
\* written carry that conversation's club_id (and point at the conversation),
\* the only customer updated is the conversation's customer and the only
\* conversation updated is the matched one, whatever club, customer or phone
\* the function parameters name.
FunctionCallTenantScoped ==
    [][response'.op = "function-call" =>
       \A id \in CallIds :
          LET conversation == ConversationByCallId(id) IN
          (/\ conversation # 0
           /\ \E functionCall \in NamingCalls, sms_ok \in BOOLEAN :
                 vapi_webhook(Event("function-call", PlainCall(id), functionCall,
                                    NoMessage), sms_ok))
          => /\ \A i \in Written(bookings, bookings') :
                   /\ bookings'[i].club_id = conversations[conversation].club_id
                   /\ bookings'[i].customer_id = conversations[conversation].customer_id
                   /\ bookings'[i].conversation_id = conversation
             /\ \A i \in Written(notifications, notifications') :
                   /\ notifications'[i].club_id = conversations[conversation].club_id
                   /\ notifications'[i].conversation_id = conversation
             /\ Written(customers, customers') \subseteq
                   {conversations[conversation].customer_id}
             /\ Written(conversations, conversations') \subseteq {conversation}]_vars

\* Reached: the call of club 2 has booked, escalated or saved while the
\* parameters could name club 1, and the rows written are club 2's
FunctionCallTenantScopedWitness ==
    /\ response.op = "function-call"
    /\ \E i \in DOMAIN bookings : bookings[i].club_id = 2 /\ bookings[i].conversation_id = 2
    /\ \E i \in DOMAIN notifications : notifications[i].club_id = 2
    /\ \E i \in DOMAIN bookings : bookings[i].club_id = 1 /\ bookings[i].conversation_id = 1
    /\ customers[2].status = INTERESTED
    /\ conversations[1].escalated_to_manager

\* The status changes of the booking life cycle
LifecycleChanges ==
    {<<PENDING, CONFIRMED>>, <<CONFIRMED, COMPLETED>>, <<PENDING, CANCELLED>>,
     <<CONFIRMED, CANCELLED>>, <<CONFIRMED, NO_SHOW>>}

\* C12: every change of a booking's status made by confirm, cancel or update
\* is pending -> confirmed, confirmed -> completed, pending|confirmed ->
\* cancelled or confirmed -> no_show; no operation moves a booking out of
\* completed, cancelled or no_show.
StatusChangesFollowLifecycle ==
    [][\A i \in DOMAIN bookings :
          bookings'[i].status # bookings[i].status
          => <<bookings[i].status, bookings'[i].status>> \in LifecycleChanges]_vars

\* C13: booking creation never fails because of a confirmation-code
\* collision: a create_booking function call for a slot that no active
\* booking of the club meets persists its booking, with a confirmation code
\* no earlier booking carries, also when an earlier booking was created
\* within the same clock minute.
CodeCollisionNeverFails ==
    [][\A id \in CallIds, functionCall \in BookingCalls :
          LET conversation == ConversationByCallId(id)
              parameters == functionCall.parameters
              start_time == TimeSlot(parameters.booking_time)
          IN
          (/\ conversation # 0
           /\ ~SlotTaken(conversations[conversation].club_id,
                         resource_map(parameters.activity),
                         start_time, start_time + Hour)
           /\ vapi_webhook(Event("function-call", PlainCall(id), functionCall,
                                 NoMessage), TRUE))
          => (/\ response'.body = "result"
              /\ Len(bookings') = Len(bookings) + 1
              /\ \A i \in DOMAIN bookings :
                    bookings[i].confirmation_code
                       # bookings'[Len(bookings')].confirmation_code)]_vars

\* The confirmation a step logged, if the provider failed to send it: the id
\* of its notification row, else 0
FailedConfirmation ==
    IF /\ Len(notifications') = Len(notifications) + 1
       /\ notifications'[Len(notifications')].notification_type = "booking_confirmation"
       /\ notifications'[Len(notifications')].status = FAILED
    THEN Len(notifications') ELSE 0

\* C14: a failed confirmation SMS never rolls back or invalidates a booking:
\* after a create (API or function call) or a confirm whose SMS failed, the
\* booking is persisted with the status the operation gave it and the
\* operation reports success (201, or 200 without an error payload).
FailedSmsKeepsBooking ==
    [][FailedConfirmation # 0 =>
       LET booking_id == notifications'[FailedConfirmation].booking_id IN
       /\ booking_id \in DOMAIN bookings'
       /\ bookings'[booking_id].status \in ActiveStatuses
       /\ response'.status \in {200, 201}
       /\ response'.body # "error"]_vars

\* C15: after an escalate_to_manager function call on a matched
\* conversation, the conversation's status is escalated and its
\* escalated_to_manager flag is true, whether the manager SMS succeeded or
\* failed, and the call is answered 200 with a result message.
EscalationAlwaysMarked ==
    [][response'.op = "function-call" =>
       \A id \in CallIds, functionCall \in EscalationCalls, sms_ok \in BOOLEAN :
          LET conversation == ConversationByCallId(id) IN
          (/\ conversation # 0
           /\ vapi_webhook(Event("function-call", PlainCall(id), functionCall,
                                 NoMessage), sms_ok))
          => (/\ conversations'[conversation].status = ESCALATED
              /\ conversations'[conversation].escalated_to_manager
              /\ response'.status = 200
              /\ response'.body = "result")]_vars

\* C16: every escalate_to_manager function call on a matched conversation
\* leaves a Notification row of type escalation for the conversation's club,
\* with status sent when the send succeeded and failed when it did not.
EscalationLeavesNotification ==
    [][response'.op = "function-call" =>
       \A id \in CallIds, sms_ok \in BOOLEAN :
          \A functionCall \in {f \in NamingCalls : f.name = "escalate_to_manager"} :
             LET conversation == ConversationByCallId(id) IN
             (/\ conversation # 0
              /\ vapi_webhook(Event("function-call", PlainCall(id), functionCall,
                                    NoMessage), sms_ok))
             => (/\ Len(notifications') = Len(notifications) + 1
                 /\ LET notification == notifications'[Len(notifications')] IN
                    /\ notification.notification_type = "escalation"
                    /\ notification.club_id = conversations[conversation].club_id
                    /\ notification.status = IF sms_ok THEN SENT ELSE FAILED)]_vars

\* C17: every booking whose status became cancelled, through the cancel
\* endpoint or through an update with status cancelled, has cancelled_at and
\* cancelled_by set.
CancelledHasMetadata ==
    [][\A i \in DOMAIN bookings :
          (bookings[i].status # CANCELLED /\ bookings'[i].status = CANCELLED)
          => (bookings'[i].cancelled_at # NoInt /\ bookings'[i].cancelled_by # NULL)]_vars

\* The patches that touch the slot of a booking
SlotUpdates ==
    {update_data \in BookingUpdates :
        update_data.resource_name # NULL \/ update_data.start_time # NoInt}

\* Another active booking of the club meets the slot that the patch gives
\* booking booking_id
OthersOnNewSlot(booking_id, update_data) ==
    LET booking == bookings[booking_id]
        resource_name == IF update_data.resource_name # NULL
                         THEN update_data.resource_name ELSE booking.resource_name
        start_time == IF update_data.start_time # NoInt
                      THEN update_data.start_time ELSE booking.start_time
        end_time == IF update_data.end_time # NoInt
                    THEN update_data.end_time ELSE booking.end_time
    IN
    \E j \in DOMAIN bookings :
        /\ j # booking_id
        /\ bookings[j].status \in ActiveStatuses
        /\ OnSlot(bookings[j], booking.club_id, resource_name, start_time, end_time)

\* C18: an update that changes resource_name, start_time or end_time is
\* checked against all other active bookings of the club: when one of them
\* meets the new slot the reply is 409 and the booking is unchanged, and
\* otherwise the update is applied, the booking's own current slot never
\* counting as a conflict.
UpdateRechecksConflict ==
    [][response'.op = "PATCH /bookings/{id}" =>
       \A booking_id \in DOMAIN bookings, update_data \in SlotUpdates :
          update_booking(booking_id, update_data)
          => IF OthersOnNewSlot(booking_id, update_data)
             THEN /\ response'.status = 409
                  /\ bookings' = bookings
             ELSE /\ response'.status = 200
                  /\ update_data.resource_name # NULL
                     => bookings'[booking_id].resource_name = update_data.resource_name
                  /\ update_data.start_time # NoInt
                     => /\ bookings'[booking_id].start_time = update_data.start_time
                        /\ bookings'[booking_id].end_time = update_data.end_time]_vars

\* Reached: a patch was refused with 409 while two bookings are active on
\* one resource of the club
UpdateRechecksConflictWitness ==
    /\ response.op = "PATCH /bookings/{id}"
    /\ response.status = 409
    /\ Len(bookings) = 2
    /\ bookings[1].status \in ActiveStatuses
    /\ bookings[2].status \in ActiveStatuses
    /\ bookings[1].club_id = bookings[2].club_id
    /\ bookings[1].resource_name = bookings[2].resource_name

\* The notification after a retry
Retried(notification) ==
    [notification EXCEPT !.status = PENDING, !.error_message = NULL,
                         !.retry_count = notification.retry_count + 1]

MappedResource(activity) ==
    CASE activity \in {"tennis"} -> "Tennis Court"
      [] activity \in {"padel", "PADEL"} -> "Padel Court"
      [] activity \in {"gym"} -> "Gym Session"
      [] activity \in {"yoga class"} -> "Yoga Class"
      [] activity \in {NULL} -> "Court"

\* C20: a successful create_booking function call persists a booking whose
\* resource_name is the fixed mapping of the activity (tennis to Tennis
\* Court, padel to Padel Court, gym to Gym Session, anything else
\* title-cased), whose end_time is exactly one hour after its start_time
\* when only booking_time is given, and whose status is pending.
CallBookingMapsActivity ==
    [][response'.op = "function-call" =>
       \A id \in CallIds, functionCall \in ActivityCalls :
          (/\ ConversationByCallId(id) # 0
           /\ vapi_webhook(Event("function-call", PlainCall(id), functionCall,
                                 NoMessage), TRUE)
           /\ response'.body = "result")
          => (/\ Len(bookings') = Len(bookings) + 1
              /\ LET booking == bookings'[Len(bookings')]
                     parameters == functionCall.parameters
                 IN
                 /\ booking.resource_name = MappedResource(parameters.activity)
                 /\ booking.status = PENDING
                 /\ parameters.booking_time # NULL
                    => /\ booking.start_time = TimeSlot(parameters.booking_time)
                       /\ booking.end_time = booking.start_time + Hour)]_vars

\* Reached: the assistant has booked a gym session and a yoga class, each
\* pending and one hour long
CallBookingMapsActivityWitness ==
    /\ response.op = "function-call"
    /\ response.body = "result"
    /\ \E i \in DOMAIN bookings :
          /\ bookings[i].resource_name = "Gym Session"
          /\ bookings[i].status = PENDING
          /\ bookings[i].start_time = 1
          /\ bookings[i].end_time = 1 + Hour
    /\ \E i \in DOMAIN bookings : bookings[i].resource_name = "Yoga Class"

\* The create_booking parameters that cannot be parsed or lack a required key
Malformed(parameters) ==
    \/ parameters.booking_date \in {NULL, "tomorrow"}
    \/ parameters.booking_time \in {"9am"}
    \/ parameters.customer_name = NULL
    \/ parameters.customer_phone = NULL

DispatchTable ==
    {"get_membership_info", "get_availability", "create_booking", "save_customer_info",
     "escalate_to_manager", "get_matchi_booking_link"}

\* C22: a function-call event on an existing conversation that names a
\* function outside the dispatch table is answered 200 with the payload
\* {error: "Unknown function: <name>"} and changes no stored record.
UnknownFunctionGivesError ==
    [][response'.op = "function-call" =>
       \A id \in CallIds, functionCall \in OtherCalls :
          (/\ ConversationByCallId(id) # 0
           /\ functionCall.present
           /\ functionCall.name \notin DispatchTable
           /\ vapi_webhook(Event("function-call", PlainCall(id), functionCall,
                                 NoMessage), TRUE))
          => (/\ response'.status = 200
              /\ response'.body = "error"
              /\ response'.detail = "Unknown function: " \o functionCall.name
              /\ store' = store)]_vars

\* Reached: an unknown function was called on a stored conversation
UnknownFunctionGivesErrorWitness ==
    /\ response.op = "function-call"
    /\ response.body = "error"
    /\ response.detail = "Unknown function: unknown_function_that_doesnt_exist"
    /\ Len(conversations) > 0

\* C23: a function-call event whose call id matches no conversation is
\* answered 200 with an error payload and runs no function handler: no
\* record is created or changed.
UnmatchedFunctionCallGivesError ==
    [][response'.op = "function-call" =>
       \A id \in CallIds, functionCall \in EscalationCalls \cup OtherCalls :
          (/\ ConversationByCallId(id) = 0
           /\ vapi_webhook(Event("function-call", PlainCall(id), functionCall,
                                 NoMessage), TRUE))
          => (/\ response'.status = 200
              /\ response'.body = "error"
              /\ store' = store)]_vars

\* C24: a call-start event whose assistant id is missing or maps to no club
\* is acknowledged with 200 and creates neither a Customer nor a
\* Conversation.
UnresolvedClubAcknowledged ==
    [][response'.op = "call-start" =>
       \A call \in StartCalls :
          (/\ call.present
           /\ call.assistantId \notin {AssistantOf[c] : c \in Clubs}
           /\ vapi_webhook(Event("call-start", call, NoFunctionCall, NoMessage), TRUE))
          => (/\ response'.status = 200
              /\ customers' = customers
              /\ conversations' = conversations)]_vars

\* C25: a message event for a known call id appends exactly one Message to
\* that conversation and alters no existing Message; a message event for an
\* unknown call id is acknowledged with success and appends nothing.
MessageAppendsOne ==
    [][response'.op = "message" =>
       \A id \in CallIds, message \in Messages :
          LET conversation == ConversationByCallId(id) IN
          vapi_webhook(Event("message", PlainCall(id), NoFunctionCall, message), TRUE)
          => /\ response'.status = 200
             /\ IF conversation # 0
                THEN /\ Len(messages') = Len(messages) + 1
                     /\ SubSeq(messages', 1, Len(messages)) = messages
                     /\ messages'[Len(messages')].conversation_id = conversation
                ELSE messages' = messages]_vars

SignatureEnforcedInProduction ==
    [][\A signature \in {NULL, "deadbeef"}, body \in ModeBodies :
          /\ vapi_webhook_in("production", [body EXCEPT !.signature = signature], TRUE)
             => (response'.status = 401 /\ store' = store)
          /\ vapi_webhook_in("development", [body EXCEPT !.signature = signature], TRUE)
             <=> vapi_webhook_in("development", body, TRUE)]_vars

\* C30: save_customer_info changes the customer's status to interested only
\* when it is currently lead; a customer in any other status (trial, member,
\* inactive) keeps that status.
SaveCustomerInfoOnlyPromotesLead ==
    [][CallSave =>
          \A c \in DOMAIN customers :
              customers'[c].status # customers[c].status
              => (customers[c].status = LEAD /\ customers'[c].status = INTERESTED)]_vars

\* The bookings that the claim counts against a request: another booking
\* than the excluded one, of the same club, with the identical resource
\* name, pending or confirmed, starting before the requested end and ending
\* after the requested start
Conflicting(club_id, resource_name, start_time, end_time, exclude_booking_id) ==
    {i \in DOMAIN bookings \ {exclude_booking_id} :
        /\ bookings[i].status \in ActiveStatuses
        /\ <<bookings[i].club_id, bookings[i].resource_name>> = <<club_id, resource_name>>
        /\ bookings[i].start_time < end_time
        /\ start_time < bookings[i].end_time}

\* C31: check_double_booking returns true exactly when some booking other
\* than the excluded one has the same club, the identical resource_name,
\* status pending or confirmed, start_time before the requested end and
\* end_time after the requested start; a back-to-back interval, a booking of
\* another club or of a differently spelled resource never conflicts.
DoubleBookingExactlyOnOverlap ==
    \A club_id \in Clubs, resource_name \in ResourceNames \cup {"padel court"},
       iv \in Intervals, exclude_booking_id \in {0} \cup BookingIds :
        /\ check_double_booking(club_id, resource_name, iv[1], iv[2], exclude_booking_id)
           <=> Conflicting(club_id, resource_name, iv[1], iv[2], exclude_booking_id) # {}
        /\ check_double_booking(club_id, resource_name, iv[1], iv[2], exclude_booking_id)
           => \E i \in DOMAIN bookings :
                 /\ bookings[i].end_time # iv[1]
                 /\ bookings[i].start_time # iv[2]
                 /\ bookings[i].club_id = club_id
                 /\ bookings[i].resource_name = resource_name

\* Reached: the availability of 10:00-11:00 was reported while an active
\* booking of the same club and resource ends at 10:00 and the other booking
\* is active on the other resource
DoubleBookingExactlyOnOverlapWitness ==
    /\ response.op = "GET /bookings/check-availability"
    /\ response.body = "available"
    /\ Len(bookings) = 2
    /\ \E i \in DOMAIN bookings :
          /\ bookings[i].status \in ActiveStatuses
          /\ bookings[i].resource_name = response.detail
          /\ bookings[i].end_time = 2
          /\ bookings[3 - i].status \in ActiveStatuses
          /\ bookings[3 - i].resource_name # response.detail

\* The availability query answers available=true for the slot
ReportsAvailable(club_id, resource_name, start_time, end_time) ==
    ENABLED (/\ check_availability(club_id, resource_name, start_time, end_time)
             /\ response'.body = "available")

\* POST /bookings answers 409 to the request
RejectedWith409(booking_data, send_confirmation) ==
    ENABLED (/\ create_booking(booking_data, send_confirmation, TRUE)
             /\ response'.status = 409)

\* C32: the availability query changes no state, and in every state it
\* reports available=true for (club, resource_name, start, end) exactly when
\* POST /bookings for the same club, resource and interval would not be
\* rejected with 409.
AvailabilityAgreesWithCreate ==
    /\ [](\A booking_data \in BookingRequests, send_confirmation \in BOOLEAN :
            ReportsAvailable(booking_data.club_id, booking_data.resource_name,
                             booking_data.start_time, booking_data.end_time)
            <=> ~RejectedWith409(booking_data, send_confirmation))
    /\ [][ApiAvailability => store' = store]_vars

\* Reached: the query reported a slot as taken, and another as free, while
\* one booking is pending and the other cancelled
AvailabilityAgreesWithCreateWitness ==
    /\ response.op = "GET /bookings/check-availability"
    /\ response.body = "unavailable"
    /\ Len(bookings) = 2
    /\ \E i \in DOMAIN bookings :
          /\ bookings[i].status = PENDING
          /\ bookings[i].resource_name = response.detail
          /\ bookings[3 - i].status = CANCELLED

\* C33: a call-end event for call id X modifies only the conversation whose
\* call id is X; if no conversation has that id, the event is acknowledged
\* with success and no record changes.
CallEndTouchesOnlyItsConversation ==
    [][\A call \in EndCalls \ {NoCall} :
          vapi_webhook(Event("call-end", call, NoFunctionCall, NoMessage), TRUE)
          => /\ response'.status = 200
             /\ <<customers, messages, bookings, notifications>>'
                  = <<customers, messages, bookings, notifications>>
             /\ DOMAIN conversations' = DOMAIN conversations
             /\ \A i \in DOMAIN conversations :
                   conversations[i].vapi_call_id # call.id
                   => conversations'[i] = conversations[i]]_vars

\* Reached: call "abc" has ended and was completed while the conversation
\* of call "xyz" beside it is still as it started
CallEndTouchesOnlyItsConversationWitness ==
    /\ response.op = "call-end"
    /\ response.status = 200
    /\ Len(conversations) = 2
    /\ conversations[1].status = COMPLETED
    /\ conversations[1].outcome # NULL
    /\ conversations[2].vapi_call_id = "xyz"
    /\ conversations[2].status = ACTIVE
    /\ conversations[2].ended_at = NoInt

\* The customers of the club with exactly the phone number
SamePhone(club_id, phone_number) ==
    {i \in DOMAIN customers :
        customers[i].club_id = club_id /\ customers[i].phone = phone_number}

\* C34: call-start creates a new Customer (placeholder name, source
\* phone_call, status lead) only when no Customer with exactly that (club,
\* phone) exists; sequential calls with distinct call ids from the same
\* number to the same club reuse one Customer row.
CallStartReusesCustomer ==
    /\ [](\A i, j \in DOMAIN customers :
            <<customers[i].club_id, customers[i].phone>>
              = <<customers[j].club_id, customers[j].phone>> => i = j)
    /\ [][\A call \in StartCalls :
            vapi_webhook(Event("call-start", call, NoFunctionCall, NoMessage), TRUE)
            => /\ \/ customers' = customers
                  \/ \E club_id \in Clubs :
                        /\ AssistantOf[club_id] = call.assistantId
                        /\ SamePhone(club_id, call.customer) = {}
                        /\ customers' =
                             Append(customers,
                                    [club_id |-> club_id, phone |-> call.customer,
                                     name |-> "Unknown Caller", source |-> "phone_call",
                                     status |-> LEAD])
               /\ Len(conversations') > Len(conversations)
                  => LET conversation == conversations'[Len(conversations')] IN
                     /\ customers'[conversation.customer_id].phone = call.customer
                     /\ customers'[conversation.customer_id].club_id = conversation.club_id
                     /\ AssistantOf[conversation.club_id] = call.assistantId]_vars

\* Reached: a second call from the same number to club 1, with another call
\* id, was answered with its conversation on the one customer row
CallStartReusesCustomerWitness ==
    /\ response.op = "call-start"
    /\ response.status = 200
    /\ response.body = "ok"
    /\ Len(conversations) = 2
    /\ conversations[2].vapi_call_id = "xyz"
    /\ conversations[2].club_id = 1
    /\ conversations[2].customer_id = 1
    /\ Len(customers) = 1

\* The message events that stored a message, with the incoming role
Stored(role) ==
    \E call \in PlainCalls :
        /\ vapi_webhook(Event("message", call, NoFunctionCall, MessageInfo(role, "Hello")), TRUE)
        /\ Len(messages') = Len(messages) + 1

\* C35 as stated: the role stored for a message is assistant exactly when
\* the incoming role is "assistant"; every other incoming role is stored as
\* customer.
StoredRoleAssistantOnlyForAssistant ==
    [][\A role \in {"assistant", "Assistant", "user", "system"} :
          Stored(role)
          => messages'[Len(messages')].role
               = IF role = "assistant" THEN "assistant" ELSE "customer"]_vars

\* C35 amended: the role stored for a message is assistant exactly when the
\* incoming role is "assistant" in any letter case; every other incoming
\* role (system and unknown values included) is stored as customer.
StoredRoleAssistantIgnoringCase ==
    [][\A role \in {"assistant", "Assistant", "user", "system"} :
          Stored(role)
          => messages'[Len(messages')].role
               = IF role \in {"assistant", "Assistant"} THEN "assistant" ELSE "customer"]_vars

\* Reached: a message of call "abc" was stored for the assistant
StoredRoleAssistantIgnoringCaseWitness ==
    /\ response.op = "message"
    /\ response.status = 200
    /\ Len(messages) = 1
    /\ messages[1].role = "assistant"
    /\ conversations[messages[1].conversation_id].vapi_call_id = "abc"

\* C36: a booking created through the create endpoint is persisted in
\* pending status, or in confirmed status when the caller supplies it; it
\* is never created directly in completed, cancelled or no_show.
CreatedPendingOrConfirmed ==
    [][(ApiCreate /\ Len(bookings') = Len(bookings) + 1)
       => bookings'[Len(bookings')].status \in {PENDING, CONFIRMED}]_vars

\* The call-start events that name the assistant of a club
ResolvableStarts ==
    {call \in StartCalls : call.present /\ call.assistantId \in {AssistantOf[c] : c \in Clubs}}

\* C37: under at-least-once delivery, where the platform re-delivers an
\* event until it receives a 200, every call-start for a resolvable club is
\* eventually acknowledged with 200: no event is answered with an error on
\* every one of its deliveries.
CallStartEventuallyAcknowledged ==
    \A call \in ResolvableStarts :
        (workers[1].call = call) ~> (workers[1].call = call /\ response.status = 200)

\* C38: a conversation that has left status active (completed or escalated)
\* never returns to active under any later webhook event.
NeverBackToActive ==
    [][\A i \in DOMAIN conversations :
          conversations[i].status # ACTIVE
          => (i \in DOMAIN conversations' /\ conversations'[i].status # ACTIVE)]_vars

\* Reached: call "abc" was escalated, then ended, and a later call-start for
\* the same call id has been answered
NeverBackToActiveWitness ==
    /\ response.op = "call-start"
    /\ response.status = 500
    /\ conversations[1].vapi_call_id = "abc"
    /\ conversations[1].escalated_to_manager
    /\ conversations[1].status = COMPLETED

\* C39: in every reachable state a notification's retry_count is at most
\* its max_retries, however many times it fails and is retried.
RetryCountWithinMaxRetries ==
    \A i \in DOMAIN notifications :
        notifications[i].retry_count <= notifications[i].max_retries

====
